---- MODULE Spec2Model ----
(***************************************************************************)
(* Model of the risk-scoring-service HTTP application (src/src/main.py).   *)
(*                                                                         *)
(* The application has four routes.  Every handler is an `async def` with  *)
(* no await point, so each request is handled in one atomic step.  The     *)
(* module keeps no data of its own between requests; the only variable of  *)
(* the model is the record of the exchanges (request, environment at the   *)
(* time of the request, response) the service has taken part in, which is  *)
(* what the properties below speak about.                                  *)
(*                                                                         *)
(* Scores are written in hundredths: the float 0.5 is 50, the RiskScore    *)
(* field constraint ge=0.0, le=1.0 is 0..100.                              *)
(***************************************************************************)
EXTENDS Integers, Sequences, FiniteSets

VARIABLES log

vars == <<log>>

(***************************************************************************)
(* Bounds of the model.                                                    *)
(***************************************************************************)
\* number of exchanges recorded
MaxLog == 2
\* number of items of a batch request
MaxBatch == 2

(***************************************************************************)
(* Inputs.                                                                 *)
(***************************************************************************)
\* entity_id is any str; the empty string is a str
EntityIds == {"", "acct-1"}

EntityTypes == {"account"}

\* JSON bodies a client can post: entity_id and entity_type present, or
\* entity_id left out
Bodies ==
    {[entity_id |-> id, entity_type |-> t] : id \in EntityIds, t \in EntityTypes}
        \cup {[entity_type |-> t] : t \in EntityTypes}

\* reachability of the three dependencies (PostgreSQL history store, Qdrant
\* vector index, ML model) at the time a request is handled
DepStates == [history : BOOLEAN, vector : BOOLEAN, model : BOOLEAN]

\* what the body of the try block of assess_risk does: it completes, or a
\* runtime error (an Exception subclass, named here by its message) is raised
NoFault == "none"

Faults == {NoFault, "out of memory"}

RECURSIVE SeqsUpTo(_, _)
SeqsUpTo(S, n) ==
    IF n = 0 THEN {<<>>}
    ELSE LET shorter == SeqsUpTo(S, n - 1)
         IN  shorter \cup {Append(s, x) : s \in {q \in shorter : Len(q) = n - 1}, x \in S}

(***************************************************************************)
(* Data models.                                                            *)
(***************************************************************************)
\* the required fields of RiskAssessmentRequest: Field(...) on entity_id and
\* entity_type, with no constraint on their content
RequestValid(body) == {"entity_id", "entity_type"} \subseteq DOMAIN body

\* the parsed request: parameters defaults to the empty dict, context to None
RiskAssessmentRequest(body) ==
    [entity_id |-> body.entity_id, entity_type |-> body.entity_type,
     parameters |-> <<>>, context |-> "None"]

\* the field constraints of RiskScore: score ge=0.0, le=1.0
RiskScoreValid(r) == r.score >= 0 /\ r.score <= 100

\* FastAPI's answer to a body that fails request validation
validation_error == [status |-> 422, body |-> [detail |-> "validation error"]]

(***************************************************************************)
(* GET /health                                                             *)
(***************************************************************************)
health_response ==
    [status |-> 200,
     body |-> [status |-> "healthy", version |-> "0.1.0",
               service |-> "risk-scoring-service"]]

health_check ==
    /\ Len(log) < MaxLog
    /\ log' = Append(log, [op |-> "health", response |-> health_response])

(***************************************************************************)
(* GET /ready                                                              *)
(***************************************************************************)
\* the handler probes nothing (TODO in the source): its answer is fixed
readiness_response(deps) ==
    [status |-> 200, body |-> [ready |-> TRUE, service |-> "risk-scoring-service"]]

readiness_check ==
    /\ Len(log) < MaxLog
    /\ \E deps \in DepStates :
          log' = Append(log, [op |-> "ready", deps |-> deps,
                              response |-> readiness_response(deps)])

(***************************************************************************)
(* POST /api/v1/risk/assess                                                *)
(***************************************************************************)
risk_score_wrong_band(request) ==
    [entity_id |-> request.entity_id, risk_level |-> "MEDIUM", score |-> 90,
     factors |-> <<"placeholder">>, timestamp |-> "2025-01-15T00:00:00Z",
     model_version |-> "0.1.0"]

\* the placeholder RiskScore the handler builds; model_version is the
\* default of the RiskScore model
risk_score(request) ==
    [entity_id |-> request.entity_id, risk_level |-> "MEDIUM", score |-> 50,
     factors |-> <<"placeholder">>, timestamp |-> "2025-01-15T00:00:00Z",
     model_version |-> "0.1.0"]

internal_error_leaky(exc) == [status |-> 500, body |-> [detail |-> exc]]

\* the except clause: any Exception becomes HTTPException(500) with a fixed
\* detail; the exception's text goes to the log only
internal_error(exc) == [status |-> 500, body |-> [detail |-> "Risk assessment failed"]]

\* the handler's try block: build the RiskScore and return it, or answer 500
\* when the block raises (a runtime fault, or RiskScore's own validation)
assess_risk_response(request, fault) ==
    IF fault # NoFault THEN internal_error(fault)
    ELSE IF ~RiskScoreValid(risk_score(request))
         THEN internal_error("validation error for RiskScore")
         ELSE [status |-> 200, body |-> risk_score(request)]

\* the dependency calls the handler issues: none (the five steps of the
\* TODO are not implemented)
assess_risk_calls(request, deps) == <<>>

assess_risk_drifting ==
    /\ Len(log) < MaxLog
    /\ \E body \in Bodies, deps \in DepStates, fault \in Faults :
          /\ RequestValid(body)
          /\ LET request == RiskAssessmentRequest(body)
                 r == assess_risk_response(request, fault)
                 drifted == IF r.status = 200
                            THEN [r EXCEPT !.body.score = 50 + Len(log)]
                            ELSE r
             IN  log' = Append(log, [op |-> "assess", valid |-> TRUE, request |-> request,
                                     deps |-> deps, fault |-> fault,
                                     calls |-> assess_risk_calls(request, deps),
                                     response |-> drifted])

assess_risk ==
    /\ Len(log) < MaxLog
    /\ \E body \in Bodies, deps \in DepStates, fault \in Faults :
          /\ RequestValid(body)
          /\ LET request == RiskAssessmentRequest(body)
             IN  log' = Append(log, [op |-> "assess", valid |-> TRUE, request |-> request,
                                     deps |-> deps, fault |-> fault,
                                     calls |-> assess_risk_calls(request, deps),
                                     response |-> assess_risk_response(request, fault)])

\* a body without a required field never reaches the handler
assess_risk_rejected ==
    /\ Len(log) < MaxLog
    /\ \E body \in Bodies :
          /\ ~RequestValid(body)
          /\ log' = Append(log, [op |-> "assess", valid |-> FALSE, raw |-> body,
                                 response |-> validation_error])

(***************************************************************************)
(* POST /api/v1/risk/batch                                                 *)
(***************************************************************************)
\* the handler counts the requests and reports the batch as pending
batch_response(requests) ==
    [status |-> 200, body |-> [processed |-> Len(requests), status |-> "pending"]]

batch_assess_risk_cumulative ==
    /\ Len(log) < MaxLog
    /\ \E bodies \in SeqsUpTo(Bodies, MaxBatch) :
          /\ \A i \in 1..Len(bodies) : RequestValid(bodies[i])
          /\ LET requests == [i \in 1..Len(bodies) |-> RiskAssessmentRequest(bodies[i])]
                 r == batch_response(requests)
                 before == {i \in 1..Len(log) : log[i].op = "batch" /\ log[i].valid}
                 total == IF before = {} THEN 0
                          ELSE log[CHOOSE i \in before : \A j \in before : j <= i]
                                  .response.body.processed
             IN  log' = Append(log, [op |-> "batch", valid |-> TRUE, requests |-> requests,
                                     response |-> [r EXCEPT !.body.processed = @ + total]])

batch_assess_risk ==
    /\ Len(log) < MaxLog
    /\ \E bodies \in SeqsUpTo(Bodies, MaxBatch) :
          /\ \A i \in 1..Len(bodies) : RequestValid(bodies[i])
          /\ LET requests == [i \in 1..Len(bodies) |-> RiskAssessmentRequest(bodies[i])]
             IN  log' = Append(log, [op |-> "batch", valid |-> TRUE, requests |-> requests,
                                     response |-> batch_response(requests)])

\* list[RiskAssessmentRequest]: one malformed item rejects the whole body
batch_assess_risk_rejected ==
    /\ Len(log) < MaxLog
    /\ \E bodies \in SeqsUpTo(Bodies, MaxBatch) :
          /\ \E i \in 1..Len(bodies) : ~RequestValid(bodies[i])
          /\ log' = Append(log, [op |-> "batch", valid |-> FALSE, raw |-> bodies,
                                 response |-> validation_error])

(***************************************************************************)
(* The service.                                                            *)
(***************************************************************************)
Init == log = <<>>

Next ==
    \/ health_check
    \/ readiness_check
    \/ assess_risk
    \/ assess_risk_rejected
    \/ batch_assess_risk
    \/ batch_assess_risk_rejected

Spec == Init /\ [][Next]_vars

(***************************************************************************)
(* Properties.                                                             *)
(***************************************************************************)
\* positions of the assess requests that reached the handler
Assessed == {i \in 1..Len(log) : log[i].op = "assess" /\ log[i].valid}

\* positions of the assess requests answered with a RiskScore
Scored == {i \in Assessed : log[i].response.status = 200}

\* positions of the batch requests that reached the handler
Batched == {i \in 1..Len(log) : log[i].op = "batch" /\ log[i].valid}

\* positions of the readiness requests
Probed == {i \in 1..Len(log) : log[i].op = "ready"}

\* C1: in every RiskScore returned by assess, risk_level is the band the
\* default thresholds give to score: [0,0.25) LOW, [0.25,0.6) MEDIUM,
\* [0.6,0.85) HIGH, [0.85,1.0] CRITICAL, a boundary belonging to the higher band.
C1_LevelIsBandOfScore ==
    LET band(score) == IF score < 25 THEN "LOW"
                       ELSE IF score < 60 THEN "MEDIUM"
                       ELSE IF score < 85 THEN "HIGH"
                       ELSE "CRITICAL"
    IN  \A i \in Scored :
           log[i].response.body.risk_level = band(log[i].response.body.score)

C1_Witness ==
    \E i \in Scored : log[i].response.body.risk_level = "MEDIUM"

\* C2: when the history store and/or the vector index is unreachable, and the
\* scoring itself does not fail, assess still answers with a RiskScore whose
\* factors name each failed dependency ("history unavailable", "similarity
\* unavailable").
C2_DegradedRecorded ==
    \A i \in Assessed :
       LET e == log[i]
           has(f) == \E k \in 1..Len(e.response.body.factors) :
                        e.response.body.factors[k] = f
       IN  (e.fault = NoFault /\ e.deps.model) =>
              /\ e.response.status = 200
              /\ (~e.deps.history => has("history unavailable"))
              /\ (~e.deps.vector => has("similarity unavailable"))

\* C3: the response to a batch of N requests has a results array of exactly N
\* outcomes, the i-th for the i-th request.
C3_BatchResultsInOrder ==
    \A i \in Batched :
       LET e == log[i]
       IN  /\ "results" \in DOMAIN e.response.body
           /\ Len(e.response.body.results) = Len(e.requests)
           /\ \A k \in 1..Len(e.requests) :
                 e.response.body.results[k].entity_id = e.requests[k].entity_id

\* C4: in a batch where exactly one request has the empty entity_id, that item
\* gets a ValidationError outcome and every other item a RiskScore.
C4_BatchIsolation ==
    \A i \in Batched :
       LET e == log[i]
           empty == {k \in 1..Len(e.requests) : e.requests[k].entity_id = ""}
       IN  Cardinality(empty) = 1 =>
              /\ "results" \in DOMAIN e.response.body
              /\ Len(e.response.body.results) = Len(e.requests)
              /\ \A k \in 1..Len(e.requests) :
                    e.response.body.results[k].kind =
                       IF k \in empty THEN "ValidationError" ELSE "RiskScore"

\* C5: readiness reports ready exactly when all three dependency probes
\* succeed.
C5_ReadyIffAllDependenciesUp ==
    \A i \in Probed :
       log[i].response.body.ready =
          (log[i].deps.history /\ log[i].deps.vector /\ log[i].deps.model)

C7_Deterministic ==
    \A i \in Scored : \A j \in Scored :
       (log[i].request = log[j].request /\ log[i].deps = log[j].deps) =>
          LET a == log[i].response.body
              b == log[j].response.body
          IN  /\ a.entity_id = b.entity_id
              /\ a.score = b.score
              /\ a.risk_level = b.risk_level
              /\ a.factors = b.factors
              /\ a.model_version = b.model_version

C7_Witness ==
    \E i \in Scored : \E j \in Scored :
       i < j /\ log[i].request = log[j].request /\ log[i].deps = log[j].deps

\* C9: a RiskScore is returned only after the model was invoked, and the model
\* is invoked only after both the history lookup and the similarity search
\* were issued.
C9_ScoreAfterJoin ==
    \A i \in Scored :
       LET calls == log[i].calls
       IN  \E m \in 1..Len(calls) :
              /\ calls[m] = "model.score"
              /\ \E h \in 1..(m - 1) : calls[h] = "history.fetch"
              /\ \E v \in 1..(m - 1) : calls[v] = "vector.search"

====
